---- MODULE Spec2Model ----
(***************************************************************************)
(* Outreach campaign state machine of salesh-auto: the Send (Message)      *)
(* lifecycle, the suppression lists, reply ingestion, the delivery driver  *)
(* (message_sender_job), the manual send endpoints and the automation      *)
(* runner, modelled from backend/app.                                      *)
(*                                                                         *)
(* Strings are sequences of one-character strings, so that lower-casing,   *)
(* digit filtering and substring matching are computed, not assumed.       *)
(* A NULL / None string is the empty sequence.  Tables are sequences of    *)
(* rows; a row's id is its index.                                          *)
(*                                                                         *)
(* The handlers are coroutines of one event loop: the await of a network   *)
(* call ends an atomic step.  The delivery driver and reply ingestion are  *)
(* cut finer, at each db.commit(), because a commit publishes the rows to  *)
(* every other database session.  The campaign generators and a tick of    *)
(* the automation runner await nothing and are single steps.               *)
(***************************************************************************)
EXTENDS Integers, Sequences, FiniteSets, TLC

VARIABLES
    now,            \* now_ist(), counted in slots of a day
    companies,      \* table companies (with its company_emails / company_phones rows)
    assocs,         \* table company_products of the one product: company ids by relevance
    campaigns,      \* table campaigns: sequence of campaign kinds, id = index
    sends,          \* table messages
    replies,        \* table reply_tracking
    unsubs,         \* table unsubscribe_list
    opens,          \* table email_open_tracking
    configs,        \* table automation_configs
    cancelFor,      \* company whose DRAFT Sends the last step cancelled for a reply, 0 if none
    inbound,        \* the inbound reply the last step looked a company up for, NoInbound if none
    transportCall,  \* id of the Send the last step invoked a Transport for, 0 if none
    delivered,      \* ids of the Sends a Transport has reported as sent
    lastUnsub,      \* the last add_to_unsubscribe_list call: its address, time and returned row
    lastReply,      \* the last record_reply call: its arguments, time and returned row
    cycles,         \* per config: the days on which a fetch+generate cycle was completed
    runnerEvent,    \* whether the last step was a runner tick, the configs it ran, those whose fetch failed
    requests,       \* number of external requests served (API calls, inbound replies)
    drvPc, drvBatch,            \* message_sender_job: position, rest of the batch
    smPc, smMsg,                \* send_message: position, message id
    rcPc, rcBatch, rcCompany,   \* reply_checker_job: position, rest of the poll, matched company
    whPc, whCompany, whText     \* whatsapp_webhook: position, matched company, message text

vars == <<now, companies, assocs, opens, campaigns, sends, replies, unsubs, configs, cancelFor, inbound,
          transportCall, delivered, lastUnsub, lastReply, cycles, runnerEvent, requests, drvPc, drvBatch,
          smPc, smMsg, rcPc, rcBatch, rcCompany, whPc, whCompany, whText>>

(***************************************************************************)
(* Bounds of the model                                                     *)
(***************************************************************************)
MaxDay == 1
MaxRequests == 3
MaxPoll == 2
MaxCompanies == 2
\* product campaigns of the backlog the delivery driver starts from
MaxBacklog == 33

(***************************************************************************)
(* Strings                                                                 *)
(***************************************************************************)
NoStr == <<>>

LowerChar(c) ==
    CASE c = "A" -> "a"
      [] c = "B" -> "b"
      [] c = "X" -> "x"
      [] OTHER -> c

\* str.lower()
Lower(s) == [i \in DOMAIN s |-> LowerChar(s[i])]

Digits == {"0", "1", "2", "3", "4", "5", "6", "7", "8", "9"}

IsDigit(c) == c \in Digits

\* ''.join(filter(str.isdigit, s))
OnlyDigits(s) == SelectSeq(s, IsDigit)

\* s[-n:]
LastN(s, n) == IF Len(s) <= n THEN s ELSE SubSeq(s, Len(s) - n + 1, Len(s))

\* sub in s   (SQL contains / Python in)
Contains(s, sub) ==
    \E i \in 0..(Len(s) - Len(sub)) : SubSeq(s, i + 1, i + Len(sub)) = sub

\* the elements of a finite set of row ids in increasing order
SeqOfSet(S) ==
    IF S = {} THEN <<>>
    ELSE LET top == CHOOSE x \in S : \A y \in S : y <= x
         IN SelectSeq([i \in 1..top |-> i], LAMBDA i : i \in S)

Ids(table) == DOMAIN table

(***************************************************************************)
(* Rows                                                                    *)
(***************************************************************************)
EmailA == <<"a", "@", "x">>
EmailAUpper == <<"A", "@", "X">>
EmailB == <<"b", "@", "x">>
EmailUnknown == <<"z", "@", "x">>

PhoneA == <<"+", "9", "1", "7", "0", "0", "0", "0", "0", "0", "0", "0", "1">>
PhoneAWire == <<"9", "1", "7", "0", "0", "0", "0", "0", "0", "0", "0", "1">>
PhoneUnknownWire == <<"9", "1", "7", "0", "0", "0", "0", "0", "0", "0", "0", "2">>

\* a demo number of the lists in scheduler_service.py and whatsapp_service.py
PhoneDemo == <<"9", "8", "7", "6", "5", "4", "3", "2", "1">>

ContentStop == <<"s", "t", "o", "p">>
ContentThanks == <<"o", "k">>

StatusDraft == "DRAFT"
StatusSent == "SENT"
StatusFailed == "FAILED"
StatusCancelled == "CANCELLED"
StatusSkipped == "SKIPPED"

Stages == <<"INITIAL", "FOLLOWUP_1", "FOLLOWUP_2">>

NoTime == -1

SlotsPerDay == 2

Day(t) == t \div SlotsPerDay

CompanyRow(email, phone, emailRows, phoneRows, industry, created) ==
    [email |-> email, phone |-> phone, emails |-> emailRows, phones |-> phoneRows,
     industry |-> industry, country |-> "IN", created |-> created, deleted |-> FALSE]

ContactRow(value, primary, verified) ==
    [value |-> value, is_primary |-> primary, is_verified |-> verified]

Message(company, campaign, type, stage, scheduled) ==
    [company |-> company, campaign |-> campaign, type |-> type, stage |-> stage,
     status |-> StatusDraft, scheduled_for |-> scheduled, sent_at |-> NoTime]

\* Company.primary_email
primary_email(c) ==
    LET prim == SelectSeq(c.emails, LAMBDA r : r.is_primary)
    IN IF prim # <<>> THEN prim[1].value
       ELSE IF c.emails # <<>> THEN c.emails[1].value
       ELSE c.email

\* Company.primary_phone
primary_phone(c) ==
    LET prim == SelectSeq(c.phones, LAMBDA r : r.is_primary)
    IN IF prim # <<>> THEN prim[1].value
       ELSE IF c.phones # <<>> THEN c.phones[1].value
       ELSE c.phone

\* db.query(Company).filter(Company.id == id).first() finds a row
CompanyFound(id) == id \in Ids(companies) /\ ~companies[id].deleted

(***************************************************************************)
(* Suppression oracle: automation_service.py                               *)
(***************************************************************************)
\* UnsubscribeService.is_unsubscribed
is_unsubscribed(email) == \E i \in Ids(unsubs) : unsubs[i].email = Lower(email)

\* ReplyTrackingService.has_replied
has_replied(company) == \E i \in Ids(replies) : replies[i].company = company

\* a lookup by the address as it was passed in
UnsubLookupKeyRaw(email) == email

\* the address add_to_unsubscribe_list looks up before inserting
UnsubLookupKey(email) == Lower(email)

\* UnsubscribeService.add_to_unsubscribe_list: the table after the call
add_to_unsubscribe_list(table, email, company, reason) ==
    IF \E i \in Ids(table) : table[i].email = UnsubLookupKey(email)
    THEN table
    ELSE Append(table, [email |-> Lower(email), company |-> company, reason |-> reason,
                        unsubscribed_at |-> now])

\* UnsubscribeService.add_to_unsubscribe_list: the row the call returns
unsubscribe_returned(table, email, company, reason) ==
    LET after == add_to_unsubscribe_list(table, email, company, reason)
        i == CHOOSE j \in Ids(after) : after[j].email = Lower(email)
    IN after[i]

\* a call of add_to_unsubscribe_list on the unsubscribe_list table
UnsubscribeCall(email, company, reason) ==
    /\ unsubs' = add_to_unsubscribe_list(unsubs, email, company, reason)
    /\ lastUnsub' = [email |-> email, at |-> now,
                     returned |-> unsubscribe_returned(unsubs, email, company, reason)]

\* a lookup by the sender as it was passed in
ReplyLookupKeyRaw(from_email) == from_email

\* the sender record_reply looks up before inserting, line 149
ReplyLookupKey(from_email) == Lower(from_email)

\* record_reply, lines 147-150: the rows of the company with that sender
ReplyLookup(table, company, from_email) ==
    {i \in Ids(table) : table[i].company = company /\
                        table[i].from_email = ReplyLookupKey(from_email)}

\* ReplyTrackingService.record_reply: the table after the call
record_reply(table, company, from_email, subject, content) ==
    IF ReplyLookup(table, company, from_email) # {}
    THEN table
    ELSE Append(table, [company |-> company, from_email |-> Lower(from_email),
                        subject |-> subject, content |-> content, replied_at |-> now])

\* ReplyTrackingService.record_reply: the row the call returns
record_reply_returned(table, company, from_email, subject, content) ==
    LET found == ReplyLookup(table, company, from_email)
        after == record_reply(table, company, from_email, subject, content)
    IN IF found # {}
       THEN table[CHOOSE i \in found : \A j \in found : i <= j]
       ELSE after[Len(after)]

\* a record_reply whose commit also cancels the company's DRAFT messages
record_reply_session_cancelling(db, company, from_email, subject, content) ==
    [db EXCEPT !.replies = record_reply(db.replies, company, from_email, subject, content),
               !.sends = [m \in Ids(db.sends) |->
                             IF db.sends[m].company = company
                             THEN [db.sends[m] EXCEPT !.status = StatusCancelled]
                             ELSE db.sends[m]]]

\* record_reply, lines 155-168: what db.add(reply); db.commit() writes to the tables
record_reply_session(db, company, from_email, subject, content) ==
    [db EXCEPT !.replies = record_reply(db.replies, company, from_email, subject, content)]

\* a call of record_reply on the reply_tracking table
RecordReplyCall(company, from_email, subject, content) ==
    /\ replies' = record_reply(replies, company, from_email, subject, content)
    /\ lastReply' = [company |-> company, from_email |-> from_email, subject |-> subject,
                     content |-> content, at |-> now,
                     returned |-> record_reply_returned(replies, company, from_email,
                                                        subject, content)]

\* any(k in content_lower for k in negative_keywords)
NegativeKeywords == {ContentStop}

IsNegative(content) == \E k \in NegativeKeywords : Contains(Lower(content), k)


(***************************************************************************)
(* Helpers on tables                                                       *)
(***************************************************************************)
RECURSIVE Concat(_)
Concat(ss) == IF ss = <<>> THEN <<>> ELSE Head(ss) \o Concat(Tail(ss))

Min(a, b) == IF a <= b THEN a ELSE b

\* query.limit(n).all() on rows already in query order
Limit(rows, n) == SubSeq(rows, 1, Min(n, Len(rows)))

\* message.status = st ; db.commit()
SetStatus(table, m, st) == [table EXCEPT ![m].status = st]

\* message.status = SENT ; message.sent_at = now_ist() ; db.commit()
MarkSent(table, m) == [table EXCEPT ![m].status = StatusSent, ![m].sent_at = now]

\* one more external request is served
Served == requests < MaxRequests /\ requests' = requests + 1

(***************************************************************************)
(* Initial tables                                                          *)
(***************************************************************************)
\* a company as fetch_clients_for_product stores it: validated WhatsApp phone
CompanyBoth == CompanyRow(EmailA, PhoneA, <<>>, <<ContactRow(PhoneA, TRUE, TRUE)>>, "IT", 0)
CompanyEmailOnly == CompanyRow(EmailB, NoStr, <<>>, <<>>, "IT", 0)
CompanyPhoneOnly == CompanyRow(NoStr, PhoneA, <<>>, <<ContactRow(PhoneA, TRUE, TRUE)>>, "IT", 0)

CompanyTables == {<<CompanyBoth>>, <<CompanyEmailOnly, CompanyPhoneOnly>>}

\* a company whose only phone is a demo number
CompanyDemoPhone == CompanyRow(EmailA, PhoneDemo, <<>>, <<ContactRow(PhoneDemo, TRUE, FALSE)>>, "FIN", 0)

\* a company as run_single_automation stores it: no contact row is verified
CompanyUnverified ==
    CompanyRow(EmailB, PhoneA, <<ContactRow(EmailB, TRUE, FALSE)>>,
               <<ContactRow(PhoneA, TRUE, FALSE)>>, "FIN", 0)

\* companies that reached the table by other ways than the product fetch
OtherCompanyTables == {<<CompanyDemoPhone>>, <<CompanyUnverified>>}

\* an inbound reply as a lookup step sees it: the channel and the sender
Inbound(channel, from) == [channel |-> channel, from |-> from]

NoInbound == Inbound("", NoStr)

\* before any call of record_reply
NoReplyCall ==
    [company |-> 0, from_email |-> NoStr, subject |-> "", content |-> NoStr, at |-> NoTime,
     returned |-> [company |-> 0, from_email |-> NoStr, subject |-> "", content |-> NoStr,
                   replied_at |-> NoTime]]

\* before any call of add_to_unsubscribe_list
NoUnsubCall ==
    [email |-> NoStr, at |-> NoTime,
     returned |-> [email |-> NoStr, company |-> 0, reason |-> "", unsubscribed_at |-> NoTime]]

InitProcesses ==
    /\ drvPc = "idle" /\ drvBatch = <<>>
    /\ smPc = "idle" /\ smMsg = 0
    /\ rcPc = "idle" /\ rcBatch = <<>> /\ rcCompany = 0
    /\ whPc = "idle" /\ whCompany = 0 /\ whText = NoStr

InitEmpty ==
    /\ now = 0
    /\ campaigns = <<>>
    /\ sends = <<>>
    /\ replies = <<>>
    /\ unsubs = <<>>
    /\ opens = <<>>
    /\ transportCall = 0
    /\ cancelFor = 0
    /\ inbound = NoInbound
    /\ delivered = {}
    /\ lastUnsub = NoUnsubCall
    /\ lastReply = NoReplyCall
    /\ requests = 0
    /\ InitProcesses

Init ==
    /\ InitEmpty
    /\ companies \in CompanyTables
    /\ assocs = SeqOfSet(Ids(companies))
    /\ configs = <<>>
    /\ cycles = <<>>
    /\ runnerEvent = [ticked |-> FALSE, triggered |-> {}, failed |-> {}]

\* the tables campaign generation starts from; the product's associations hold
\* only companies the product fetch stored
InitGen ==
    /\ InitEmpty
    /\ companies \in CompanyTables \cup OtherCompanyTables
    /\ assocs = IF companies \in CompanyTables THEN SeqOfSet(Ids(companies)) ELSE <<>>
    /\ configs = <<>>
    /\ cycles = <<>>
    /\ runnerEvent = [ticked |-> FALSE, triggered |-> {}, failed |-> {}]

processVars == <<drvPc, drvBatch, smPc, smMsg, rcPc, rcBatch, rcCompany, whPc, whCompany, whText>>
autoVars == <<configs, cycles, runnerEvent>>

NoRunnerEvent == [ticked |-> FALSE, triggered |-> {}, failed |-> {}]

(***************************************************************************)
(* Clock                                                                   *)
(***************************************************************************)
\* a day passes
TickDay ==
    /\ Day(now) < MaxDay
    /\ now' = now + SlotsPerDay
    /\ transportCall' = 0
    /\ cancelFor' = 0
    /\ inbound' = NoInbound
    /\ UNCHANGED <<companies, assocs, opens, campaigns, sends, replies, unsubs, delivered,
                   lastUnsub, lastReply, requests, processVars, autoVars>>

(***************************************************************************)
(* product_service.py: generate_product_campaign                           *)
(***************************************************************************)
ProductFollowup1Days == 3
ProductFollowup2Days == 7

ProductStageOffsets == <<0, ProductFollowup1Days, ProductFollowup2Days>>

\* the Message rows of one company, lines 677-711
ProductMessagesFor(c, campaign) ==
    Concat([k \in 1..3 |->
        LET scheduled == now + ProductStageOffsets[k] * SlotsPerDay
        IN (IF companies[c].email # NoStr
            THEN <<Message(c, campaign, "EMAIL", Stages[k], scheduled)>> ELSE <<>>)
           \o
           (IF companies[c].phone # NoStr
            THEN <<Message(c, campaign, "WHATSAPP", Stages[k], scheduled)>> ELSE <<>>)])

\* UnsubscribeList.email == company.email (line 664: no lower-casing; NULL matches no row)
ProductSkipsCompany(c) ==
    companies[c].email # NoStr /\ \E i \in Ids(unsubs) : unsubs[i].email = companies[c].email

\* the company ids the campaign covers, lines 603-617
ProductCampaignCompanies(limit) == Limit(assocs, limit)

\* a campaign id that always names the first campaign
FirstCampaignId(table) == 1

\* campaign.id of the Campaign row a generator has just inserted
NewCampaignId(table) == Len(table) + 1

generate_product_campaign ==
    \E limit \in 1..Len(assocs) :
        LET picked == ProductCampaignCompanies(limit)
            campaign == NewCampaignId(campaigns)
        IN /\ Served
           /\ picked # <<>>
           /\ campaigns' = Append(campaigns, "product")
           /\ sends' = sends \o Concat([i \in DOMAIN picked |->
                          IF ProductSkipsCompany(picked[i]) THEN <<>>
                          ELSE ProductMessagesFor(picked[i], campaign)])
           /\ transportCall' = 0
           /\ cancelFor' = 0
           /\ inbound' = NoInbound
           /\ UNCHANGED <<now, companies, assocs, opens, replies, unsubs, delivered, lastUnsub, lastReply,
                          processVars, autoVars>>


(***************************************************************************)
(* main.py: generate_campaign                                              *)
(***************************************************************************)
ManualFollowup1Days == 3
ManualFollowup2Days == 7

ManualStageOffsets == <<0, ManualFollowup1Days, ManualFollowup2Days>>

Channels == <<"EMAIL", "WHATSAPP">>

\* crud.get_companies_by_industry: companies of the industry with no message yet
CompaniesByIndustry(industry, limit) ==
    Limit(SeqOfSet({c \in Ids(companies) :
                       /\ CompanyFound(c)
                       /\ companies[c].industry = industry
                       /\ \A m \in Ids(sends) : sends[m].company # c}), limit)

\* lines 702-746: an EMAIL and a WHATSAPP message for every stage
ManualMessagesFor(c, campaign) ==
    Concat([k \in 1..3 |->
        [p \in 1..2 |-> Message(c, campaign, Channels[p], Stages[k],
                                now + ManualStageOffsets[k] * SlotsPerDay)]])

Industries == {"IT", "FIN"}

\* the Campaign row is committed before the companies are looked up
generate_campaign ==
    \E industry \in Industries, limit \in 1..2 :
        LET picked == CompaniesByIndustry(industry, limit)
            campaign == NewCampaignId(campaigns)
        IN /\ Served
           /\ campaigns' = Append(campaigns, "manual")
           /\ sends' = sends \o Concat([i \in DOMAIN picked |-> ManualMessagesFor(picked[i], campaign)])
           /\ transportCall' = 0
           /\ cancelFor' = 0
           /\ inbound' = NoInbound
           /\ UNCHANGED <<now, companies, assocs, opens, replies, unsubs, delivered, lastUnsub, lastReply,
                          processVars, autoVars>>

(***************************************************************************)
(* scheduler_service.py: _generate_campaign_for_config                     *)
(***************************************************************************)
DefaultRunDurationDays == 7

ConfigRow(industry, send_slot, followup1, followup2) ==
    [industry |-> industry, country |-> "IN", status |-> "draft", is_active |-> FALSE,
     send_time |-> send_slot, followup_day_1 |-> followup1, followup_day_2 |-> followup2,
     run_duration_days |-> DefaultRunDurationDays, start_date |-> NoTime, end_date |-> NoTime, last_run_at |-> NoTime, days_completed |-> 0,
     total_companies_fetched |-> 0]

\* now.replace(hour=send_time_hour, minute=send_time_minute, ...)
ScheduledTime(cfg, t) == Day(t) * SlotsPerDay + cfg.send_time

\* lines 801-810: the send time of today, or of tomorrow when it has passed
FirstSendTime(cfg, t) ==
    IF ScheduledTime(cfg, t) < t THEN ScheduledTime(cfg, t) + SlotsPerDay ELSE ScheduledTime(cfg, t)

ConfigDemoNumbers ==
    {<<"9", "8", "7", "6", "5", "4", "3", "2", "1">>,
     <<"9", "8", "7", "6", "5", "4", "3", "2", "1", "0">>,
     <<"1", "2", "3", "4", "5", "6", "7", "8", "9", "0">>,
     <<"0", "0", "0", "0", "0", "0", "0", "0", "0", "0">>}

\* lines 812-817
IsDemoPhone(phone) == \E d \in ConfigDemoNumbers : Contains(OnlyDigits(phone), d)

\* offsets that ignore the config
ConfigStageOffsetsFixed(cfg) == <<0, ManualFollowup1Days, ManualFollowup2Days>>

\* timedelta(days=config.followup_day_1), timedelta(days=config.followup_day_2)
ConfigStageOffsets(cfg) == <<0, cfg.followup_day_1, cfg.followup_day_2>>

\* lines 819-886: three EMAIL messages, and three WHATSAPP messages when the
\* company has a primary phone that is no demo number
ConfigMessagesFor(row, c, campaign, cfg, t) ==
    LET offsets == ConfigStageOffsets(cfg)
        at(k) == FirstSendTime(cfg, t) + offsets[k] * SlotsPerDay
    IN [k \in 1..3 |-> Message(c, campaign, "EMAIL", Stages[k], at(k))]
       \o
       (IF primary_phone(row) # NoStr /\ ~IsDemoPhone(primary_phone(row))
        THEN [k \in 1..3 |-> Message(c, campaign, "WHATSAPP", Stages[k], at(k))]
        ELSE <<>>)

\* lines 741-746: the companies of the config's market created today
NewCompanies(cos, cfg, t) ==
    SeqOfSet({c \in Ids(cos) :
                 /\ ~cos[c].deleted
                 /\ cos[c].industry = cfg.industry
                 /\ cos[c].country = cfg.country
                 /\ Day(cos[c].created) >= Day(t)})

\* the campaigns and messages tables after _generate_campaign_for_config
ConfigCampaign(cos, camps, msgs, cfg, t) ==
    LET new == NewCompanies(cos, cfg, t)
        campaign == NewCampaignId(camps)
    IN IF new = <<>>
       THEN [campaigns |-> camps, sends |-> msgs]
       ELSE [campaigns |-> Append(camps, "automation"),
             sends |-> msgs \o Concat([i \in DOMAIN new |->
                          ConfigMessagesFor(cos[new[i]], new[i], campaign, cfg, t)])]

\* the configs the generator is run for outside the runner
GenConfigs == {ConfigRow("IT", 1, 1, 2), ConfigRow("FIN", 0, 3, 7)}

generate_campaign_for_config ==
    \E cfg \in GenConfigs :
        LET after == ConfigCampaign(companies, campaigns, sends, cfg, now)
        IN /\ Served
           /\ campaigns' = after.campaigns
           /\ sends' = after.sends
           /\ transportCall' = 0
           /\ cancelFor' = 0
           /\ inbound' = NoInbound
           /\ UNCHANGED <<now, companies, assocs, opens, replies, unsubs, delivered, lastUnsub, lastReply,
                          processVars, autoVars>>


(***************************************************************************)
(* Transports                                                              *)
(***************************************************************************)
\* email_service.send_email_async: {"status": "sent"} or {"status": "failed"};
\* an exception it raises is handled by every caller like "failed"
EmailResults == {"sent", "failed"}

DemoNumbers ==
    {<<"9", "8", "7", "6", "5", "4", "3", "2", "1">>,
     <<"9", "8", "7", "6", "5", "4", "3", "2", "1", "0">>,
     <<"1", "2", "3", "4", "5", "6", "7", "8", "9", "0">>,
     <<"0", "0", "0", "0", "0", "0", "0", "0", "0", "0">>}

\* whatsapp_service.send_template_message, lines 189-198 and 255-
WhatsappResults(to_number) ==
    IF \E d \in DemoNumbers : Contains(OnlyDigits(to_number), d)
    THEN {"skipped"}
    ELSE {"sent", "failed"}

(***************************************************************************)
(* scheduler_service.py: message_sender_job (the delivery driver)          *)
(***************************************************************************)
DriverBatchLimit == 100

\* Message.status == DRAFT, Message.scheduled_for <= now, limit(100)
DriverDue(r) == r.status = StatusDraft /\ r.scheduled_for <= now

\* the query without its limit
DueDraftsUnbounded ==
    SeqOfSet({m \in Ids(sends) : DriverDue(sends[m])})

DueDrafts ==
    Limit(SeqOfSet({m \in Ids(sends) : DriverDue(sends[m])}), DriverBatchLimit)

\* the EMAIL branch's checks before the transport call, lines 450-467
DriverEmailBlocked(c) ==
    \/ primary_email(companies[c]) = NoStr
    \/ is_unsubscribed(primary_email(companies[c]))
    \/ has_replied(c)

\* the WHATSAPP branch's checks before the transport call, lines 494-504
DriverWhatsappBlocked(c) ==
    \/ primary_phone(companies[c]) = NoStr
    \/ has_replied(c)

\* the checks of the two branches without the company lookup before them
DriverBlockedFound(m) ==
    \/ sends[m].type = "EMAIL" /\ DriverEmailBlocked(sends[m].company)
    \/ sends[m].type = "WHATSAPP" /\ DriverWhatsappBlocked(sends[m].company)

\* the message is marked FAILED without a transport call
DriverBlocked(m) ==
    \/ ~CompanyFound(sends[m].company)
    \/ sends[m].type = "EMAIL" /\ DriverEmailBlocked(sends[m].company)
    \/ sends[m].type = "WHATSAPP" /\ DriverWhatsappBlocked(sends[m].company)

\* the messages the tick still has to handle: the query result when the tick
\* starts (lines 421-433), the rest of it afterwards
DriverBatch == IF drvPc = "idle" THEN DueDrafts ELSE drvBatch

\* the tick gives up the rest of its batch after a message
DriverAdvanceAborting ==
    /\ drvBatch' = <<>>
    /\ drvPc' = "loop"

\* the message's status is committed (lines 440, 452, 459, 466, 487, 491, 544)
\* and the for loop goes on with the next message; an exception of the
\* transport is caught inside the loop body and commits FAILED like a
\* failed result does
DriverAdvance ==
    /\ drvBatch' = Tail(DriverBatch)
    /\ drvPc' = "loop"

driverFrame == <<now, companies, assocs, opens, campaigns, replies, unsubs, lastUnsub, lastReply, requests,
                 smPc, smMsg, rcPc, rcBatch, rcCompany, whPc, whCompany, whText, autoVars>>

\* a driver that passes over such a message and leaves it as it is
message_sender_job_passing ==
    /\ drvPc \in {"idle", "loop"}
    /\ DriverBatch # <<>>
    /\ DriverBlocked(Head(DriverBatch))
    /\ transportCall' = 0
    /\ cancelFor' = 0
    /\ inbound' = NoInbound
    /\ DriverAdvance
    /\ UNCHANGED <<sends, delivered>>
    /\ UNCHANGED driverFrame

\* lines 435-467, 493-504: a message that is marked FAILED before any transport call
message_sender_job_blocked ==
    /\ drvPc \in {"idle", "loop"}
    /\ DriverBatch # <<>>
    /\ DriverBlocked(Head(DriverBatch))
    /\ sends' = SetStatus(sends, Head(DriverBatch), StatusFailed)
    /\ transportCall' = 0
    /\ cancelFor' = 0
    /\ inbound' = NoInbound
    /\ DriverAdvance
    /\ UNCHANGED delivered
    /\ UNCHANGED driverFrame

\* lines 469-481: the EMAIL transport is called and awaited
message_sender_job_email ==
    /\ drvPc \in {"idle", "loop"}
    /\ DriverBatch # <<>>
    /\ ~DriverBlocked(Head(DriverBatch))
    /\ sends[Head(DriverBatch)].type = "EMAIL"
    /\ drvBatch' = DriverBatch
    /\ drvPc' = "await"
    /\ transportCall' = Head(DriverBatch)
    /\ cancelFor' = 0
    /\ inbound' = NoInbound
    /\ UNCHANGED <<sends, delivered>>
    /\ UNCHANGED driverFrame

\* lines 483-491: the awaited result is committed
message_sender_job_email_done ==
    /\ drvPc = "await"
    /\ \E result \in EmailResults :
          IF result = "sent"
          THEN /\ sends' = MarkSent(sends, Head(drvBatch))
               /\ delivered' = delivered \cup {Head(drvBatch)}
          ELSE /\ sends' = SetStatus(sends, Head(drvBatch), StatusFailed)
               /\ UNCHANGED delivered
    /\ transportCall' = 0
    /\ cancelFor' = 0
    /\ inbound' = NoInbound
    /\ DriverAdvance
    /\ UNCHANGED driverFrame

\* lines 506-539: the WHATSAPP transport is called (no await) and its result committed
message_sender_job_whatsapp ==
    /\ drvPc \in {"idle", "loop"}
    /\ DriverBatch # <<>>
    /\ ~DriverBlocked(Head(DriverBatch))
    /\ sends[Head(DriverBatch)].type = "WHATSAPP"
    /\ \E result \in WhatsappResults(primary_phone(companies[sends[Head(DriverBatch)].company])) :
          IF result = "sent"
          THEN /\ sends' = MarkSent(sends, Head(DriverBatch))
               /\ delivered' = delivered \cup {Head(DriverBatch)}
          ELSE /\ sends' = SetStatus(sends, Head(DriverBatch), StatusFailed)
               /\ UNCHANGED delivered
    /\ transportCall' = Head(DriverBatch)
    /\ cancelFor' = 0
    /\ inbound' = NoInbound
    /\ DriverAdvance
    /\ UNCHANGED driverFrame

\* lines 541-547: the batch is exhausted and the tick ends
message_sender_job_return ==
    /\ drvPc = "loop"
    /\ drvBatch = <<>>
    /\ drvPc' = "idle"
    /\ transportCall' = 0
    /\ cancelFor' = 0
    /\ inbound' = NoInbound
    /\ UNCHANGED <<sends, delivered, drvBatch>>
    /\ UNCHANGED driverFrame

message_sender_job ==
    \/ message_sender_job_blocked
    \/ message_sender_job_email
    \/ message_sender_job_email_done
    \/ message_sender_job_whatsapp
    \/ message_sender_job_return


(***************************************************************************)
(* main.py: the manual send endpoints and the bulk retry                   *)
(***************************************************************************)
manualFrame == <<now, companies, assocs, opens, campaigns, replies, unsubs, lastUnsub, lastReply,
                 drvPc, drvBatch, rcPc, rcBatch, rcCompany, whPc, whCompany, whText, autoVars>>

\* send_message, lines 1243-1254: the request is refused with no write
SendMessageRefused(m) ==
    \/ sends[m].type # "EMAIL"
    \/ sends[m].status = StatusSent
    \/ ~CompanyFound(sends[m].company)
    \/ companies[sends[m].company].email = NoStr

\* send_message, lines 1256-1266: the suppression checks
SendMessageSuppressed(m) ==
    \/ is_unsubscribed(companies[sends[m].company].email)
    \/ has_replied(sends[m].company)

send_message_refused ==
    /\ smPc = "idle"
    /\ Served
    /\ \E m \in Ids(sends) : SendMessageRefused(m)
    /\ transportCall' = 0
    /\ cancelFor' = 0
    /\ inbound' = NoInbound
    /\ UNCHANGED <<sends, delivered, smPc, smMsg>>
    /\ UNCHANGED manualFrame

send_message_suppressed ==
    /\ smPc = "idle"
    /\ Served
    /\ \E m \in Ids(sends) :
          /\ ~SendMessageRefused(m)
          /\ SendMessageSuppressed(m)
          /\ sends' = SetStatus(sends, m, StatusFailed)
    /\ transportCall' = 0
    /\ cancelFor' = 0
    /\ inbound' = NoInbound
    /\ UNCHANGED <<delivered, smPc, smMsg>>
    /\ UNCHANGED manualFrame

\* lines 1268-1283: the transport is called and awaited
send_message_call ==
    /\ smPc = "idle"
    /\ Served
    /\ \E m \in Ids(sends) :
          /\ ~SendMessageRefused(m)
          /\ ~SendMessageSuppressed(m)
          /\ smMsg' = m
          /\ transportCall' = m
          /\ cancelFor' = 0
          /\ inbound' = NoInbound
    /\ smPc' = "await"
    /\ UNCHANGED <<sends, delivered>>
    /\ UNCHANGED manualFrame

\* lines 1285-1306
send_message_done ==
    /\ smPc = "await"
    /\ UNCHANGED requests
    /\ \E result \in EmailResults :
          IF result = "sent"
          THEN /\ sends' = MarkSent(sends, smMsg)
               /\ delivered' = delivered \cup {smMsg}
          ELSE /\ sends' = SetStatus(sends, smMsg, StatusFailed)
               /\ UNCHANGED delivered
    /\ smPc' = "idle"
    /\ smMsg' = 0
    /\ transportCall' = 0
    /\ cancelFor' = 0
    /\ inbound' = NoInbound
    /\ UNCHANGED manualFrame

send_message ==
    \/ send_message_refused
    \/ send_message_suppressed
    \/ send_message_call
    \/ send_message_done

\* send_whatsapp_message, lines 1435-1446: the request is refused with no write
SendWhatsappRefused(m) ==
    \/ sends[m].type # "WHATSAPP"
    \/ sends[m].status = StatusSent
    \/ ~CompanyFound(sends[m].company)
    \/ companies[sends[m].company].phone = NoStr

\* company.phone.replace('+', '').replace('-', '').replace(' ', '')
StripPhone(phone) == SelectSeq(phone, LAMBDA ch : ch \notin {"+", "-", " "})

\* lines 1448-1510, with the sender settings configured
send_whatsapp_message ==
    \E m \in Ids(sends) :
        /\ ~SendWhatsappRefused(m)
        /\ \E result \in WhatsappResults(StripPhone(companies[sends[m].company].phone)) :
              CASE result = "sent" ->
                     /\ sends' = MarkSent(sends, m)
                     /\ delivered' = delivered \cup {m}
                [] result = "skipped" ->
                     UNCHANGED <<sends, delivered>>
                [] OTHER ->
                     /\ sends' = SetStatus(sends, m, StatusFailed)
                     /\ UNCHANGED delivered
        /\ transportCall' = m
        /\ cancelFor' = 0
        /\ inbound' = NoInbound
        /\ Served
        /\ UNCHANGED <<smPc, smMsg>>
        /\ UNCHANGED manualFrame

\* the rows retry_messages_batch updates, lines 1196-1199
RetryTargets(ids) == {m \in ids : sends[m].status = StatusFailed}

\* the id lists a request selects: one or two message ids
RetrySelections == {{a, b} : a, b \in Ids(sends)}

retry_messages_batch ==
    \E ids \in RetrySelections :
        /\ RetryTargets(ids) # {}
        /\ sends' = [m \in Ids(sends) |->
                        IF m \in RetryTargets(ids)
                        THEN [sends[m] EXCEPT !.status = StatusDraft] ELSE sends[m]]
        /\ transportCall' = 0
        /\ cancelFor' = 0
        /\ inbound' = NoInbound
        /\ Served
        /\ UNCHANGED <<delivered, smPc, smMsg>>
        /\ UNCHANGED manualFrame


(***************************************************************************)
(* Reply ingestion: reply_checker_job and whatsapp_webhook                 *)
(***************************************************************************)
\* a cancellation that disregards the status of the company's messages
CancelTargetsAnyStatus(table, c) == {m \in Ids(table) : table[m].company = c}

\* the DRAFT messages of the company become CANCELLED ; db.commit()
CancelTargets(table, c) == {m \in Ids(table) : table[m].company = c /\ table[m].status = StatusDraft}

CancelDrafts(table, c) ==
    [m \in Ids(table) |->
        IF m \in CancelTargets(table, c)
        THEN [table[m] EXCEPT !.status = StatusCancelled] ELSE table[m]]

\* what the mailbox poll can return: sender address and body
InboundReplies ==
    {[from_email |-> EmailAUpper, content |-> ContentStop],
     [from_email |-> EmailB, content |-> ContentThanks],
     [from_email |-> EmailUnknown, content |-> ContentThanks]}

\* reply.get('subject') of a polled reply
SubjectEmail == "Re"

InboundBatches ==
    UNION {[1..n -> InboundReplies] : n \in 1..MaxPoll}

\* reply_checker_job, lines 569-580: Company.email, then CompanyEmail.email
CompaniesByEmail(from_email) ==
    LET direct == {c \in Ids(companies) : CompanyFound(c) /\ companies[c].email = from_email}
        viaRows == {c \in Ids(companies) : CompanyFound(c) /\
                       \E i \in DOMAIN companies[c].emails : companies[c].emails[i].value = from_email}
    IN IF direct # {} THEN direct ELSE viaRows

\* .first(): the row with the lowest id, 0 when there is none
First(S) == IF S = {} THEN 0 ELSE CHOOSE x \in S : \A y \in S : x <= y

ReplyRecorded(c, from_email) ==
    \E i \in Ids(replies) : replies[i].company = c /\ replies[i].from_email = Lower(from_email)

replyFrame == <<now, companies, assocs, opens, campaigns, delivered, drvPc, drvBatch, smPc, smMsg, autoVars>>

RcHead == rcBatch[1]
\* a lookup that settles for the first company whoever the sender is
RcMatchAny == First({c \in Ids(companies) : CompanyFound(c)})

\* lines 566-580: reply['from_email'].lower() looked up, .first()
RcMatch == First(CompaniesByEmail(Lower(RcHead.from_email)))

RcAdvance ==
    /\ rcBatch' = Tail(rcBatch)
    /\ rcPc' = IF Tail(rcBatch) = <<>> THEN "idle" ELSE "loop"
    /\ rcCompany' = 0

\* lines 558-565: the poll returned replies
reply_checker_job_poll ==
    /\ rcPc = "idle"
    /\ Served
    /\ \E batch \in InboundBatches : rcBatch' = batch
    /\ rcPc' = "loop"
    /\ transportCall' = 0
    /\ cancelFor' = 0
    /\ inbound' = NoInbound
    /\ UNCHANGED <<sends, replies, unsubs, lastUnsub, lastReply, rcCompany, whPc, whCompany, whText>>
    /\ UNCHANGED replyFrame

\* lines 566-582: no company has the sender's address
reply_checker_job_unmatched ==
    /\ rcPc = "loop"
    /\ RcMatch = 0
    /\ RcAdvance
    /\ transportCall' = 0
    /\ cancelFor' = 0
    /\ inbound' = Inbound("email", RcHead.from_email)
    /\ UNCHANGED <<sends, replies, unsubs, lastUnsub, lastReply, requests, whPc, whCompany, whText>>
    /\ UNCHANGED replyFrame

\* lines 582-590: record_reply inserts the row and commits
reply_checker_job_record ==
    /\ rcPc = "loop"
    /\ RcMatch # 0
    /\ ~ReplyRecorded(RcMatch, RcHead.from_email)
    /\ RecordReplyCall(RcMatch, Lower(RcHead.from_email), SubjectEmail, RcHead.content)
    /\ rcCompany' = RcMatch
    /\ rcPc' = "cancel"
    /\ transportCall' = 0
    /\ cancelFor' = 0
    /\ inbound' = Inbound("email", RcHead.from_email)
    /\ UNCHANGED <<sends, unsubs, lastUnsub, requests, rcBatch, whPc, whCompany, whText>>
    /\ UNCHANGED replyFrame

\* the company whose DRAFT messages the cancelling step of the job updates
RcCancelCompany == IF rcPc = "cancel" THEN rcCompany ELSE RcMatch

\* lines 592-603: the DRAFT messages are cancelled and committed
reply_checker_job_cancel ==
    /\ \/ rcPc = "cancel"
       \/ rcPc = "loop" /\ RcMatch # 0 /\ ReplyRecorded(RcMatch, RcHead.from_email)
    /\ sends' = CancelDrafts(sends, RcCancelCompany)
    /\ cancelFor' = RcCancelCompany
    /\ inbound' = (IF rcPc = "cancel" THEN NoInbound ELSE Inbound("email", RcHead.from_email))
    /\ rcCompany' = RcCancelCompany
    /\ IF IsNegative(RcHead.content)
       THEN rcPc' = "unsubscribe" /\ UNCHANGED rcBatch
       ELSE rcBatch' = Tail(rcBatch) /\ rcPc' = (IF Tail(rcBatch) = <<>> THEN "idle" ELSE "loop")
    /\ IF rcPc = "cancel"
       THEN UNCHANGED <<replies, lastReply>>
       ELSE RecordReplyCall(RcMatch, Lower(RcHead.from_email), SubjectEmail, RcHead.content)
    /\ transportCall' = 0
    /\ UNCHANGED <<unsubs, lastUnsub, requests, whPc, whCompany, whText>>
    /\ UNCHANGED replyFrame

\* lines 605-615: a negative reply unsubscribes company.email; with no
\* company.email the call raises and the except clause ends the job
reply_checker_job_unsubscribe ==
    /\ rcPc = "unsubscribe"
    /\ IF companies[rcCompany].email = NoStr
       THEN /\ rcBatch' = <<>>
            /\ rcPc' = "idle"
            /\ UNCHANGED <<unsubs, lastUnsub>>
       ELSE /\ UnsubscribeCall(companies[rcCompany].email, rcCompany, "reply")
            /\ rcBatch' = Tail(rcBatch)
            /\ rcPc' = IF Tail(rcBatch) = <<>> THEN "idle" ELSE "loop"
    /\ rcCompany' = 0
    /\ transportCall' = 0
    /\ cancelFor' = 0
    /\ inbound' = NoInbound
    /\ UNCHANGED <<sends, replies, lastReply, requests, whPc, whCompany, whText>>
    /\ UNCHANGED replyFrame

reply_checker_job ==
    \/ reply_checker_job_poll
    \/ reply_checker_job_unmatched
    \/ reply_checker_job_record
    \/ reply_checker_job_cancel
    \/ reply_checker_job_unsubscribe


\* what the webhook can receive: sender number (digits, no plus) and text
InboundPhones == {PhoneAWire, PhoneUnknownWire}
InboundTexts == {ContentStop, ContentThanks}

WhatsappPrefix == <<"w", "h", "a", "t", "s", "a", "p", "p", ":">>

\* subject=f"WhatsApp Reply"
SubjectWhatsapp == "WhatsApp Reply"

\* whatsapp_webhook, lines 316-340: the four lookups, in order
CompaniesByPhone(phone_number) ==
    LET tail10 == LastN(OnlyDigits(phone_number), 10)
        live == {c \in Ids(companies) : CompanyFound(c)}
        exact == {c \in live : companies[c].phone = phone_number}
        plus == {c \in live : companies[c].phone = <<"+">> \o phone_number}
        inPhone == {c \in live : companies[c].phone # NoStr /\ Contains(companies[c].phone, tail10)}
        inRows == {c \in live : \E i \in DOMAIN companies[c].phones :
                                    Contains(companies[c].phones[i].value, tail10)}
    IN IF exact # {} THEN exact
       ELSE IF plus # {} THEN plus
       ELSE IF inPhone # {} THEN inPhone
       ELSE inRows

webhookFrame == <<now, companies, assocs, opens, campaigns, delivered, drvPc, drvBatch, smPc, smMsg,
                  rcPc, rcBatch, rcCompany, autoVars>>

\* lines 342-348: no company has the number
whatsapp_webhook_unmatched ==
    /\ whPc = "idle"
    /\ Served
    /\ \E phone \in InboundPhones :
          /\ First(CompaniesByPhone(phone)) = 0
          /\ inbound' = Inbound("whatsapp", phone)
    /\ transportCall' = 0
    /\ cancelFor' = 0
    /\ UNCHANGED <<sends, replies, unsubs, lastUnsub, lastReply, whPc, whCompany, whText>>
    /\ UNCHANGED webhookFrame

\* lines 350-357: record_reply inserts the row and commits
whatsapp_webhook_record ==
    /\ whPc = "idle"
    /\ Served
    /\ \E phone \in InboundPhones, text \in InboundTexts :
          LET c == First(CompaniesByPhone(phone))
          IN /\ c # 0
             /\ ~ReplyRecorded(c, WhatsappPrefix \o phone)
             /\ RecordReplyCall(c, WhatsappPrefix \o phone, SubjectWhatsapp, text)
             /\ whCompany' = c
             /\ inbound' = Inbound("whatsapp", phone)
             /\ whText' = text
    /\ whPc' = "cancel"
    /\ transportCall' = 0
    /\ cancelFor' = 0
    /\ UNCHANGED <<sends, unsubs, lastUnsub>>
    /\ UNCHANGED webhookFrame

WhAfterCancel(text) == IF IsNegative(text) THEN "unsubscribe" ELSE "idle"

\* lines 359-370: the DRAFT messages are cancelled and committed
whatsapp_webhook_cancel ==
    /\ whPc = "cancel"
    /\ sends' = CancelDrafts(sends, whCompany)
    /\ cancelFor' = whCompany
    /\ inbound' = NoInbound
    /\ whPc' = WhAfterCancel(whText)
    /\ whCompany' = IF IsNegative(whText) THEN whCompany ELSE 0
    /\ whText' = IF IsNegative(whText) THEN whText ELSE NoStr
    /\ transportCall' = 0
    /\ UNCHANGED <<replies, unsubs, lastUnsub, lastReply, requests>>
    /\ UNCHANGED webhookFrame

\* lines 350-370 when the sender's reply is already recorded: no commit
\* separates record_reply from the cancellation
whatsapp_webhook_again ==
    /\ whPc = "idle"
    /\ Served
    /\ \E phone \in InboundPhones, text \in InboundTexts :
          LET c == First(CompaniesByPhone(phone))
          IN /\ c # 0
             /\ ReplyRecorded(c, WhatsappPrefix \o phone)
             /\ RecordReplyCall(c, WhatsappPrefix \o phone, SubjectWhatsapp, text)
             /\ sends' = CancelDrafts(sends, c)
             /\ cancelFor' = c
             /\ inbound' = Inbound("whatsapp", phone)
             /\ whPc' = WhAfterCancel(text)
             /\ whCompany' = IF IsNegative(text) THEN c ELSE 0
             /\ whText' = IF IsNegative(text) THEN text ELSE NoStr
    /\ transportCall' = 0
    /\ UNCHANGED <<unsubs, lastUnsub>>
    /\ UNCHANGED webhookFrame

\* lines 372-381: a negative text unsubscribes company.email; with no
\* company.email the call raises and the handler returns an error
whatsapp_webhook_unsubscribe ==
    /\ whPc = "unsubscribe"
    /\ IF companies[whCompany].email = NoStr
       THEN UNCHANGED <<unsubs, lastUnsub>>
       ELSE UnsubscribeCall(companies[whCompany].email, whCompany, "whatsapp")
    /\ whPc' = "idle"
    /\ whCompany' = 0
    /\ whText' = NoStr
    /\ transportCall' = 0
    /\ cancelFor' = 0
    /\ inbound' = NoInbound
    /\ UNCHANGED <<sends, replies, lastReply, requests>>
    /\ UNCHANGED webhookFrame

whatsapp_webhook ==
    \/ whatsapp_webhook_unmatched
    \/ whatsapp_webhook_record
    \/ whatsapp_webhook_cancel
    \/ whatsapp_webhook_again
    \/ whatsapp_webhook_unsubscribe

\* automation_endpoints.unsubscribe: the token of a message unsubscribes
\* its company's email; a company without email makes the call raise
unsubscribe ==
    /\ Served
    /\ \E m \in Ids(sends) :
          LET c == sends[m].company
          IN /\ CompanyFound(c)
             /\ IF companies[c].email = NoStr
                THEN UNCHANGED <<unsubs, lastUnsub>>
                ELSE UnsubscribeCall(companies[c].email, c, "link")
    /\ transportCall' = 0
    /\ cancelFor' = 0
    /\ inbound' = NoInbound
    /\ UNCHANGED <<sends, replies, lastReply, whPc, whCompany, whText>>
    /\ UNCHANGED webhookFrame

(***************************************************************************)
(* automation_endpoints.py: track_email_open                               *)
(***************************************************************************)
\* an open that is also recorded as a reply of the message's company
track_email_open_tables_replying(db, message_id) ==
    [db EXCEPT !.opens = Append(@, [message_id |-> message_id, opened_at |-> now]),
               !.replies = IF message_id \in Ids(db.sends)
                           THEN record_reply(@, db.sends[message_id].company, NoStr, "open", NoStr)
                           ELSE @]

\* lines 216-224: db.add(tracking); db.commit()
track_email_open_tables(db, message_id) ==
    [db EXCEPT !.opens = Append(@, [message_id |-> message_id, opened_at |-> now])]

\* the pixel is requested for a message id; for an id that names no message
\* the insert succeeds or fails by the store's foreign-key enforcement
track_email_open ==
    /\ Served
    /\ \E message_id \in 1..(Len(sends) + 1), stored \in BOOLEAN :
          LET db == [opens |-> opens, sends |-> sends, replies |-> replies, unsubs |-> unsubs]
              after == IF stored \/ message_id \in Ids(sends)
                       THEN track_email_open_tables(db, message_id) ELSE db
          IN /\ opens' = after.opens
             /\ sends' = after.sends
             /\ replies' = after.replies
             /\ unsubs' = after.unsubs
    /\ transportCall' = 0
    /\ cancelFor' = 0
    /\ inbound' = NoInbound
    /\ UNCHANGED <<now, companies, assocs, campaigns, delivered, lastUnsub, lastReply,
                   processVars, autoVars>>

Next ==
    \/ generate_product_campaign
    \/ message_sender_job
    \/ send_message
    \/ send_whatsapp_message
    \/ retry_messages_batch
    \/ reply_checker_job
    \/ whatsapp_webhook
    \/ unsubscribe
    \/ track_email_open

Spec == Init /\ [][Next]_vars


(***************************************************************************)
(* The automation runner: automation_endpoints.py, scheduler_service.py    *)
(***************************************************************************)
\* a config as create_automation_config stores it
ConfigTables ==
    {<<ConfigRow("IT", 1, 1, 2)>>,
     <<[ConfigRow("IT", 0, 1, 2) EXCEPT !.run_duration_days = 1], ConfigRow("FIN", 1, 3, 7)>>}

InitAuto ==
    /\ InitEmpty
    /\ companies = <<>>
    /\ assocs = <<>>
    /\ configs \in ConfigTables
    /\ cycles = [c \in Ids(configs) |-> <<>>]
    /\ runnerEvent = NoRunnerEvent

autoFrame == <<companies, assocs, opens, campaigns, sends, replies, unsubs, transportCall, cancelFor, inbound,
               delivered, lastUnsub, lastReply, cycles, processVars>>

\* a slot of the day passes
Tick ==
    /\ now < (MaxDay + 1) * SlotsPerDay - 1
    /\ now' = now + 1
    /\ runnerEvent' = NoRunnerEvent
    /\ UNCHANGED <<configs, requests>>
    /\ UNCHANGED autoFrame

\* campaign generation on its own: the three generators and the clock
NextGen ==
    \/ TickDay
    \/ Tick
    \/ generate_campaign
    \/ generate_product_campaign
    \/ generate_campaign_for_config

SpecGen == InitGen /\ [][NextGen]_vars

\* the explicit start of the automation lifecycle: the config becomes running
resume_automation ==
    /\ Served
    /\ \E c \in Ids(configs) :
          /\ configs[c].status \in {"draft", "paused"}
          /\ configs' = [configs EXCEPT
                             ![c].status = "running",
                             ![c].is_active = TRUE,
                             ![c].start_date = now,
                             ![c].end_date = now + configs[c].run_duration_days * SlotsPerDay]
    /\ runnerEvent' = NoRunnerEvent
    /\ UNCHANGED now
    /\ UNCHANGED autoFrame

\* automation_endpoints.start_automation
start_automation ==
    /\ Served
    /\ \E c \in Ids(configs) : configs' = [configs EXCEPT ![c].is_active = TRUE]
    /\ runnerEvent' = NoRunnerEvent
    /\ UNCHANGED now
    /\ UNCHANGED autoFrame

\* automation_endpoints.stop_automation
stop_automation ==
    /\ Served
    /\ \E c \in Ids(configs) : configs' = [configs EXCEPT ![c].is_active = FALSE]
    /\ runnerEvent' = NoRunnerEvent
    /\ UNCHANGED now
    /\ UNCHANGED autoFrame

\* a gate that lets every tick through
AlreadyRanNever(cfg, t) == FALSE

\* automation_runner_job, lines 91-93: the config already ran today
AlreadyRanToday(cfg, t) == cfg.last_run_at # NoTime /\ Day(cfg.last_run_at) >= Day(t)

\* lines 71-76: the configs a tick looks at
RunnerConfigs == SeqOfSet({c \in Ids(configs) : configs[c].is_active /\ configs[c].status = "running"})

\* an end date that never passes
PastEndDateNever(cfg, t) == FALSE

\* lines 83-88 and 640-646: the end date has passed
PastEndDate(cfg, t) == cfg.end_date # NoTime /\ t > cfg.end_date

\* a gate that does not wait for the send time of the day
RunnerRunsAnyTime(cfg, t) ==
    /\ ~PastEndDate(cfg, t)
    /\ ~AlreadyRanToday(cfg, t)

\* lines 95-111: run_single_automation is called for the config
RunnerRuns(cfg, t) ==
    /\ ~PastEndDate(cfg, t)
    /\ ~AlreadyRanToday(cfg, t)
    /\ t >= ScheduledTime(cfg, t)

\* what the fetch of a run can do: raise while the companies are stored
\* (lines 661-727); "error", the API call of gpt_service.fetch_companies
\* failed; "none" and "one", the call returned no company or one
FetchOutcomes == {"raise", "error", "none", "one"}

\* gpt_service.fetch_companies, lines 58-88: the failure of the API call is
\* caught and an empty list returned
fetch_companies(outcome) == IF outcome = "error" THEN "none" ELSE outcome

\* a company as run_single_automation stores it, lines 676-703
FetchedCompany(cfg, t) ==
    [CompanyRow(EmailB, PhoneA, <<ContactRow(EmailB, TRUE, FALSE)>>,
                <<ContactRow(PhoneA, TRUE, FALSE)>>, cfg.industry, t)
       EXCEPT !.country = cfg.country]

Tables(cfgs, cos, camps, msgs, cyc, trig) ==
    [configs |-> cfgs, companies |-> cos, campaigns |-> camps, sends |-> msgs,
     cycles |-> cyc, triggered |-> trig, failed |-> {}]

\* run_single_automation, lines 648-732, for a config the runner found due
run_single_automation(st, c, outcome, t) ==
    LET cfg == st.configs[c]
        fetched == fetch_companies(outcome)
        n == IF fetched = "one" /\ Len(st.companies) < MaxCompanies THEN 1 ELSE 0
        cos == IF n = 1 THEN Append(st.companies, FetchedCompany(cfg, t)) ELSE st.companies
        after == [cfg EXCEPT !.last_run_at = t,
                             !.days_completed = @ + 1,
                             !.total_companies_fetched = @ + n]
        gen == ConfigCampaign(cos, st.campaigns, st.sends, after, t)
    IN IF fetched = "raise"
       THEN [st EXCEPT !.triggered = @ \cup {c}, !.failed = @ \cup {c}]
       ELSE [Tables([st.configs EXCEPT ![c] = after], cos, gen.campaigns, gen.sends,
                    [st.cycles EXCEPT ![c] = Append(@, Day(t))], st.triggered \cup {c})
               EXCEPT !.failed = st.failed \cup (IF outcome = "error" THEN {c} ELSE {})]

\* automation_runner_job, lines 82-116, for one config of the tick
RunnerHandle(st, c, outcome, t) ==
    LET cfg == st.configs[c]
    IN IF PastEndDate(cfg, t)
       THEN [st EXCEPT !.configs[c].status = "completed", !.configs[c].is_active = FALSE]
       ELSE IF RunnerRuns(cfg, t)
            THEN run_single_automation(st, c, outcome, t)
            ELSE st

RECURSIVE RunnerLoop(_, _, _, _)
RunnerLoop(st, ids, outcomes, t) ==
    IF ids = <<>> THEN st
    ELSE RunnerLoop(RunnerHandle(st, Head(ids), outcomes[Head(ids)], t), Tail(ids), outcomes, t)

\* one tick of the runner; it awaits nothing but its own coroutines
automation_runner_job ==
    \E outcomes \in [Ids(configs) -> FetchOutcomes] :
        LET st == RunnerLoop(Tables(configs, companies, campaigns, sends, cycles, {}),
                             RunnerConfigs, outcomes, now)
        IN /\ configs' = st.configs
           /\ companies' = st.companies
           /\ campaigns' = st.campaigns
           /\ sends' = st.sends
           /\ cycles' = st.cycles
           /\ runnerEvent' = [ticked |-> TRUE, triggered |-> st.triggered, failed |-> st.failed]
           /\ transportCall' = 0
           /\ cancelFor' = 0
           /\ inbound' = NoInbound
           /\ UNCHANGED <<now, assocs, opens, replies, unsubs, delivered, lastUnsub, lastReply, requests, processVars>>

NextAuto ==
    \/ Tick
    \/ resume_automation
    \/ start_automation
    \/ stop_automation
    \/ automation_runner_job

SpecAuto == InitAuto /\ [][NextAuto]_vars

(***************************************************************************)
(* Properties of the delivery and reply-ingestion machine (Spec)           *)
(***************************************************************************)
\* a step of message_sender_job that handles the head of its batch
DriverHandles(m) ==
    /\ drvPc \in {"idle", "loop"}
    /\ drvPc' # "idle"
    /\ (drvPc' # drvPc \/ drvBatch' # drvBatch)
    /\ DriverBatch # <<>>
    /\ m = Head(DriverBatch)

\* a step of message_sender_job
DriverStep == drvPc' # drvPc \/ drvBatch' # drvBatch

\* the company of the Send is suppressed: its email is unsubscribed or it has replied
Suppressed(m) ==
    /\ CompanyFound(sends[m].company)
    /\ \/ has_replied(sends[m].company)
       \/ /\ companies[sends[m].company].email # NoStr
          /\ is_unsubscribed(companies[sends[m].company].email)

\* C1: when reply ingestion cancels for a matched company, exactly the DRAFT
\* Sends of that company become CANCELLED; every other Send of the company
\* and every Send of any other company is left as it was.
C1_ReplyCancelsDraftOnly ==
    [][cancelFor' # 0 =>
         /\ Ids(sends') = Ids(sends)
         /\ \A m \in Ids(sends) :
               sends'[m] = IF sends[m].company = cancelFor' /\ sends[m].status = StatusDraft
                           THEN [sends[m] EXCEPT !.status = StatusCancelled]
                           ELSE sends[m]]_vars

\* a reply was just ingested for a company that has a CANCELLED and a SENT
\* Send, while another company still has a DRAFT Send
C1_Witness ==
    /\ cancelFor # 0
    /\ \E m \in Ids(sends) : sends[m].company = cancelFor /\ sends[m].status = StatusCancelled
    /\ \E m \in Ids(sends) : sends[m].company = cancelFor /\ sends[m].status = StatusSent
    /\ \E m \in Ids(sends) : sends[m].company # cancelFor /\ sends[m].status = StatusDraft

\* C2: a Send of either channel that the driver handles while its company is
\* suppressed becomes FAILED, and no Transport is invoked for it.
C2_DriverSuppression ==
    [][\A m \in Ids(sends) :
          DriverHandles(m) /\ Suppressed(m) =>
              sends'[m].status = StatusFailed /\ transportCall' # m]_vars

\* C3: no Transport is invoked for a Send that a Transport has already
\* reported as sent.
C3_AtMostOnce ==
    [][transportCall' # 0 => transportCall' \notin delivered]_vars

\* C4: a Send that is SENT, CANCELLED or SKIPPED keeps its state in every step.
C4_TerminalStates ==
    [][\A m \in Ids(sends) :
          sends[m].status \in {StatusSent, StatusCancelled, StatusSkipped} =>
              sends'[m].status = sends[m].status]_vars

\* C5: the step that commits a new ReplyRecord of a company leaves none of the
\* company's Sends that were DRAFT in the DRAFT state.
C5_RecordAndCancelAtomic ==
    [][\A c \in Ids(companies) :
          ~has_replied(c) /\ (\E i \in Ids(replies') : replies'[i].company = c) =>
              \A m \in Ids(sends) :
                  sends[m].company = c /\ sends[m].status = StatusDraft =>
                      sends'[m].status # StatusDraft]_vars

\* C7: a step of the driver neither invokes a Transport for a Send that is
\* FAILED nor changes it, and a step that takes a FAILED Send to DRAFT takes
\* only FAILED Sends to DRAFT and changes nothing else.
C7_NoAutomaticRetry ==
    [][/\ DriverStep =>
            \A m \in Ids(sends) :
                sends[m].status = StatusFailed => sends'[m] = sends[m] /\ transportCall' # m
       /\ \A m \in Ids(sends) :
            sends[m].status = StatusFailed /\ sends'[m].status = StatusDraft =>
                /\ ~DriverStep
                /\ \A k \in Ids(sends) :
                      \/ sends'[k] = sends[k]
                      \/ /\ sends[k].status = StatusFailed
                         /\ sends'[k] = [sends[k] EXCEPT !.status = StatusDraft]]_vars

\* C21: a step of the driver changes no Send but the one it is handling, whose
\* new state is committed by that step alone; after it the tick goes on with
\* the rest of its batch, whatever the outcome was, and the tick ends only
\* when the batch is exhausted.
C21_PerSendCommit ==
    [][DriverStep =>
         /\ \A k \in Ids(sends) :
               sends'[k] # sends[k] => DriverBatch # <<>> /\ k = Head(DriverBatch)
         /\ Ids(sends') = Ids(sends)
         /\ sends' # sends => drvBatch' = Tail(DriverBatch) /\ drvPc' = "loop"
         /\ drvPc' = "idle" => DriverBatch = <<>>]_vars

\* in the first tick after the only generation the EMAIL transport failed for
\* the first Send, and a later Send of the same batch was delivered
C21_Witness ==
    /\ requests = 1
    /\ now = 0
    /\ replies = <<>>
    /\ unsubs = <<>>
    /\ Len(sends) >= 2
    /\ sends[1].type = "EMAIL"
    /\ sends[1].status = StatusFailed
    /\ \E m \in Ids(sends) : m > 1 /\ sends[m].status = StatusSent /\ m \in delivered

\* no company has the identity the inbound reply came from
NoCompanyMatches(i) ==
    IF i.channel = "email" THEN CompaniesByEmail(Lower(i.from)) = {}
    ELSE CompaniesByPhone(i.from) = {}

\* C24: a step that looks up the company of an inbound reply (polled email
\* or WhatsApp webhook) and finds none adds no ReplyRecord and no
\* UnsubscribeEntry and changes no Send; the poll goes on with the next
\* reply of its batch.
C24_UnmatchedReplyDropped ==
    [][inbound' # NoInbound /\ NoCompanyMatches(inbound') =>
          /\ replies' = replies
          /\ unsubs' = unsubs
          /\ sends' = sends
          /\ cancelFor' = 0
          /\ inbound'.channel = "email" =>
                /\ rcBatch' = Tail(rcBatch)
                /\ rcPc' = (IF Tail(rcBatch) = <<>> THEN "idle" ELSE "loop")
          /\ inbound'.channel = "whatsapp" => whPc' = "idle"]_vars

\* a polled reply of an unknown sender has just been dropped while a Send is
\* DRAFT and the poll has one more reply to handle
C24_Witness ==
    /\ inbound = Inbound("email", EmailUnknown)
    /\ NoCompanyMatches(inbound)
    /\ rcPc = "loop"
    /\ rcBatch # <<>>
    /\ \E m \in Ids(sends) : sends[m].status = StatusDraft

\* C26: in every state a Send has sent_at set if and only if its state is SENT.
C26_SentAtIffSent ==
    \A m \in Ids(sends) : (sends[m].sent_at # NoTime) <=> (sends[m].status = StatusSent)

\* C9: a step outside the driver invokes no Transport for a Send whose
\* company already has a ReplyRecord, and does not mark it SENT when the
\* request is served in that step.
C9_ManualSendAfterReply ==
    [][\A m \in Ids(sends) :
          has_replied(sends[m].company) /\ ~DriverStep =>
              /\ transportCall' # m
              /\ (requests' # requests /\ sends[m].status # StatusSent
                     => sends'[m].status # StatusSent)]_vars

\* C18: a step that records an open appends one row to the open-tracking
\* table and changes no message, no reply record and no unsubscribe entry; it
\* cancels nothing and invokes no Transport.
C18_OpenOnlyRecords ==
    [][opens' # opens =>
          /\ Len(opens') = Len(opens) + 1
          /\ SubSeq(opens', 1, Len(opens)) = opens
          /\ sends' = sends
          /\ replies' = replies
          /\ unsubs' = unsubs
          /\ cancelFor' = 0
          /\ transportCall' = 0]_vars

\* an open was recorded for a SENT message of a company that still has DRAFT
\* messages, no reply record and no unsubscribe entry
C18_Witness ==
    \E i \in Ids(opens) :
        /\ opens[i].message_id \in Ids(sends)
        /\ sends[opens[i].message_id].status = StatusSent
        /\ \E m \in Ids(sends) :
              /\ sends[m].company = sends[opens[i].message_id].company
              /\ sends[m].status = StatusDraft
        /\ replies = <<>>
        /\ unsubs = <<>>

\* C20: when reply ingestion has handled a matched reply with opt-out content,
\* the replying company's address is on the unsubscribe list; and reply
\* ingestion adds an entry to the list only for a reply with opt-out content.
C20_OptOutUnsubscribes ==
    [][/\ (whPc = "unsubscribe" /\ whPc' = "idle")
          => /\ companies[whCompany].email # NoStr
             /\ \E i \in Ids(unsubs') : unsubs'[i].email = Lower(companies[whCompany].email)
       /\ (rcPc = "unsubscribe" /\ rcPc' # "unsubscribe")
          => /\ companies[rcCompany].email # NoStr
             /\ \E i \in Ids(unsubs') : unsubs'[i].email = Lower(companies[rcCompany].email)
       /\ (unsubs' # unsubs /\ whPc' # whPc) => IsNegative(whText)
       /\ (unsubs' # unsubs /\ (rcPc' # rcPc \/ rcBatch' # rcBatch))
          => IsNegative(rcBatch[1].content)
       /\ (cancelFor' # 0 /\ whPc' = "idle") => unsubs' = unsubs
       /\ (cancelFor' # 0 /\ rcPc' # "unsubscribe") => unsubs' = unsubs]_vars


(***************************************************************************)
(* The unsubscribe list on its own: calls of add_to_unsubscribe_list       *)
(***************************************************************************)
UnsubEmails == {EmailA, EmailAUpper, EmailB, EmailUnknown}
UnsubReasons == {"link", "reply"}

InitUnsub ==
    /\ InitEmpty
    /\ companies = <<>>
    /\ assocs = <<>>
    /\ configs = <<>>
    /\ cycles = <<>>
    /\ runnerEvent = NoRunnerEvent

add_to_unsubscribe_list_call ==
    /\ \E email \in UnsubEmails, company \in 0..1, reason \in UnsubReasons :
          UnsubscribeCall(email, company, reason)
    /\ UNCHANGED <<now, companies, assocs, opens, campaigns, sends, replies, lastReply,
                   transportCall, cancelFor, inbound, delivered, requests, processVars, autoVars>>

NextUnsub ==
    \/ TickDay
    \/ add_to_unsubscribe_list_call

SpecUnsub == InitUnsub /\ [][NextUnsub]_vars

(***************************************************************************)
(* record_reply called on its own (SpecReply)                              *)
(***************************************************************************)
ReplySenders == {EmailA, EmailAUpper, EmailB}
ReplySubjects == {SubjectEmail, SubjectWhatsapp}

record_reply_call ==
    /\ Served
    /\ \E company \in Ids(companies), from_email \in ReplySenders,
          subject \in ReplySubjects, content \in InboundTexts :
          LET db == record_reply_session([replies |-> replies, sends |-> sends, unsubs |-> unsubs],
                                         company, from_email, subject, content)
          IN /\ replies' = db.replies
             /\ sends' = db.sends
             /\ unsubs' = db.unsubs
             /\ lastReply' = [company |-> company, from_email |-> from_email,
                              subject |-> subject, content |-> content, at |-> now,
                              returned |-> record_reply_returned(replies, company, from_email,
                                                                 subject, content)]
    /\ UNCHANGED <<now, companies, assocs, opens, campaigns, transportCall, cancelFor, inbound, delivered,
                   lastUnsub, processVars, autoVars>>

NextReply ==
    \/ TickDay
    \/ generate_product_campaign
    \/ record_reply_call

SpecReply == Init /\ [][NextReply]_vars

\* C11: record_reply is idempotent on (company, lower-cased sender): the table
\* never holds two rows for one pair; a call for a pair with no row appends
\* exactly one row and returns it; a call for a pair that has a row returns that
\* row and leaves the table (subject, content, timestamp included) as it was.
C11_RecordReplyIdempotent ==
    /\ [](\A i, j \in Ids(replies) :
             replies[i].company = replies[j].company /\ replies[i].from_email = replies[j].from_email
                => i = j)
    /\ [][lastReply' # lastReply =>
            LET existing == {i \in Ids(replies) :
                                /\ replies[i].company = lastReply'.company
                                /\ replies[i].from_email = Lower(lastReply'.from_email)}
            IN IF existing # {}
               THEN /\ replies' = replies
                    /\ \E i \in existing : lastReply'.returned = replies[i]
               ELSE /\ replies' = Append(replies, lastReply'.returned)
                    /\ lastReply'.returned.company = lastReply'.company
                    /\ lastReply'.returned.from_email = Lower(lastReply'.from_email)]_vars

\* a second call for the same pair, later, with the sender in another case and
\* another subject and content, returned the first call's row
C11_Witness ==
    /\ Len(replies) = 1
    /\ replies[1].from_email = EmailA
    /\ lastReply.company = replies[1].company
    /\ lastReply.from_email = EmailAUpper
    /\ lastReply.at > replies[1].replied_at
    /\ lastReply.subject # replies[1].subject
    /\ lastReply.content # replies[1].content
    /\ lastReply.returned = replies[1]

\* C19: a record_reply call changes no message (the company's DRAFT messages
\* stay DRAFT) and adds nothing to the unsubscribe list.
C19_RecordReplyFrame ==
    [][lastReply' # lastReply => sends' = sends /\ unsubs' = unsubs]_vars

\* record_reply was called for a company that had DRAFT messages before the call
C19_Witness ==
    /\ lastReply.company # 0
    /\ \E m \in Ids(sends) :
          /\ sends[m].company = lastReply.company
          /\ sends[m].status = StatusDraft
          /\ sends[m].stage = "INITIAL"
          /\ sends[m].scheduled_for < lastReply.at

(***************************************************************************)
(* Properties of campaign generation (SpecGen), of the automation runner   *)
(* (SpecAuto) and of the unsubscribe list (SpecUnsub)                      *)
(***************************************************************************)
\* C6: for every (campaign, company, channel, stage) at most one Send exists.
C6_NoDuplicateSends ==
    \A i, j \in Ids(sends) :
        /\ sends[i].campaign = sends[j].campaign
        /\ sends[i].company = sends[j].company
        /\ sends[i].type = sends[j].type
        /\ sends[i].stage = sends[j].stage
        => i = j

\* two generators have covered the same company: it has Sends of the same
\* channel and stage in two campaigns
C6_Witness ==
    \E i, j \in Ids(sends) :
        /\ sends[i].campaign # sends[j].campaign
        /\ sends[i].company = sends[j].company
        /\ sends[i].type = sends[j].type
        /\ sends[i].stage = sends[j].stage

\* C12: in a campaign generated from an AutomationConfig every message is
\* scheduled at the campaign's start time T (a send time of the config) for
\* INITIAL, T + followup_day_1 days for FOLLOWUP_1 and T + followup_day_2 days
\* for FOLLOWUP_2, on both channels.
C12_FollowupArithmetic ==
    \A k \in Ids(campaigns) :
        campaigns[k] = "automation" =>
            \E T \in 0..((MaxDay + 2) * SlotsPerDay) :
                \A m \in Ids(sends) :
                    sends[m].campaign = k =>
                        LET cfg == CHOOSE g \in GenConfigs :
                                       g.industry = companies[sends[m].company].industry
                            days == IF sends[m].stage = "INITIAL" THEN 0
                                    ELSE IF sends[m].stage = "FOLLOWUP_1" THEN cfg.followup_day_1
                                    ELSE cfg.followup_day_2
                        IN /\ T % SlotsPerDay = cfg.send_time
                           /\ sends[m].scheduled_for = T + days * SlotsPerDay

\* an automation campaign generated after the day's send time: its WHATSAPP
\* FOLLOWUP_2 is due seven days after the next day's send time, and its EMAIL
\* FOLLOWUP_1 three days after
C12_Witness ==
    \E k \in Ids(campaigns), m, n \in Ids(sends) :
        /\ campaigns[k] = "automation"
        /\ sends[m].campaign = k /\ sends[n].campaign = k
        /\ companies[sends[m].company].industry = "FIN"
        /\ sends[m].type = "WHATSAPP" /\ sends[m].stage = "FOLLOWUP_2"
        /\ sends[m].scheduled_for = SlotsPerDay + 7 * SlotsPerDay
        /\ sends[n].type = "EMAIL" /\ sends[n].stage = "FOLLOWUP_1"
        /\ sends[n].scheduled_for = SlotsPerDay + 3 * SlotsPerDay
        /\ now < SlotsPerDay

\* C13: in every campaign, a company with an email address and no phone has
\* exactly three messages, all EMAIL, one per stage, all DRAFT.
C13_EmailOnlyCompany ==
    \A k \in Ids(campaigns), c \in Ids(companies) :
        LET mine == {m \in Ids(sends) : sends[m].campaign = k /\ sends[m].company = c}
        IN (/\ companies[c].email # NoStr
            /\ primary_phone(companies[c]) = NoStr
            /\ mine # {})
           => /\ Cardinality(mine) = 3
              /\ \A m \in mine : sends[m].type = "EMAIL" /\ sends[m].status = StatusDraft
              /\ \A st \in {"INITIAL", "FOLLOWUP_1", "FOLLOWUP_2"} :
                    \E m \in mine : sends[m].stage = st

\* C14: no WHATSAPP message exists, at any stage, for a company whose
\* WhatsApp destination is a demo number.
C14_DemoNumberOmitted ==
    \A m \in Ids(sends) :
        sends[m].type = "WHATSAPP" => ~IsDemoPhone(primary_phone(companies[sends[m].company]))

\* C15: a campaign generated from an AutomationConfig holds a WHATSAPP message
\* of a company only if one of the company's phone contacts is verified.
C15_VerifiedPhoneGate ==
    \A m \in Ids(sends) :
        (sends[m].type = "WHATSAPP" /\ campaigns[sends[m].campaign] = "automation")
           => \E i \in DOMAIN companies[sends[m].company].phones :
                 companies[sends[m].company].phones[i].is_verified

\* the number of cycles a config completed on a day
CyclesOn(c, d) == Cardinality({k \in DOMAIN cycles[c] : cycles[c][k] = d})

C25_CycleGate ==
    [][runnerEvent'.ticked =>
          \A c \in Ids(configs) :
             /\ c \in runnerEvent'.triggered =>
                   /\ configs[c].status = "running"
                   /\ configs[c].is_active
                   /\ (configs[c].last_run_at = NoTime
                          \/ Day(configs[c].last_run_at) < Day(now))
                   /\ now >= ScheduledTime(configs[c], now)
             /\ now < ScheduledTime(configs[c], now) =>
                   /\ c \notin runnerEvent'.triggered
                   /\ cycles'[c] = cycles[c]
                   /\ configs'[c].last_run_at = configs[c].last_run_at
                   /\ configs'[c].days_completed = configs[c].days_completed]_vars

\* one tick has run a cycle for a config whose send time had come and none
\* for another running, active config whose send time is later that day
C25_Witness ==
    /\ runnerEvent.ticked
    /\ \E c, d \in Ids(configs) :
          /\ c \in runnerEvent.triggered
          /\ Len(cycles[c]) = 1
          /\ configs[c].last_run_at = now
          /\ d \notin runnerEvent.triggered
          /\ configs[d].status = "running"
          /\ configs[d].is_active
          /\ configs[d].last_run_at = NoTime
          /\ now < ScheduledTime(configs[d], now)

\* C29: when the fetch of a config's cycle fails in a tick, the tick leaves
\* the config's last_run_at, days_completed and total_companies_fetched as
\* they were and creates no campaign and no Send for it, so that the next
\* tick finds the config due again; and every other config that is due in
\* the tick is run.
C29_FailedFetchKeepsGateOpen ==
    [][runnerEvent'.ticked =>
          /\ \A c \in runnerEvent'.failed :
                /\ configs'[c].last_run_at = configs[c].last_run_at
                /\ configs'[c].days_completed = configs[c].days_completed
                /\ configs'[c].total_companies_fetched = configs[c].total_companies_fetched
                /\ cycles'[c] = cycles[c]
                /\ RunnerRuns(configs'[c], now)
                /\ runnerEvent'.triggered \subseteq runnerEvent'.failed =>
                      campaigns' = campaigns /\ sends' = sends
          /\ \A d \in Ids(configs) :
                (/\ configs[d].is_active
                 /\ configs[d].status = "running"
                 /\ RunnerRuns(configs[d], now)) => d \in runnerEvent'.triggered]_vars

\* C16: a runner tick that finds a running, active config past its end date
\* makes it completed and inactive and runs no fetch+generate cycle for it; a
\* completed config never runs a cycle again.
C16_CompletedAtEndOfWindow ==
    [][\A c \in Ids(configs) :
          /\ (/\ runnerEvent'.ticked
              /\ configs[c].status = "running"
              /\ configs[c].is_active
              /\ configs[c].end_date # NoTime
              /\ now > configs[c].end_date)
             => /\ configs'[c].status = "completed"
                /\ ~configs'[c].is_active
                /\ c \notin runnerEvent'.triggered
                /\ cycles'[c] = cycles[c]
          /\ configs[c].status = "completed"
             => /\ configs'[c].status = "completed"
                /\ c \notin runnerEvent'.triggered
                /\ cycles'[c] = cycles[c]]_vars

\* a config that ran a cycle was completed by a tick after its end date, and a
\* later tick, with the config switched on again, ran nothing for it
C16_Witness ==
    \E c \in Ids(configs) :
        /\ configs[c].status = "completed"
        /\ configs[c].is_active
        /\ cycles[c] # <<>>
        /\ now > configs[c].end_date
        /\ runnerEvent.ticked

\* C17: a step that switches a config on leaves it in lifecycle state running.
C17_StartEntersRunning ==
    [][\A c \in Ids(configs) :
          (~configs[c].is_active /\ configs'[c].is_active) => configs'[c].status = "running"]_vars

\* C10: the unsubscribe list holds at most one entry per lower-cased address,
\* and a call for an address that has an entry leaves the list as it is and
\* returns that entry.
C10_UnsubscribeIdempotent ==
    /\ [](\A i, j \in Ids(unsubs) : Lower(unsubs[i].email) = Lower(unsubs[j].email) => i = j)
    /\ [][lastUnsub' # lastUnsub =>
            LET existing == {i \in Ids(unsubs) : unsubs[i].email = Lower(lastUnsub'.email)}
            IN existing # {} =>
                  /\ unsubs' = unsubs
                  /\ \E i \in existing : lastUnsub'.returned = unsubs[i]]_vars

\* an address stored on an earlier day was unsubscribed again in another
\* spelling, and the call returned the stored entry
C10_Witness ==
    /\ Len(unsubs) = 1
    /\ unsubs[1].email = EmailA
    /\ unsubs[1].unsubscribed_at < lastUnsub.at
    /\ lastUnsub.email = EmailAUpper
    /\ lastUnsub.returned = unsubs[1]

(***************************************************************************)
(* The delivery driver on a backlog (SpecBacklog)                          *)
(***************************************************************************)
\* the Message rows of MaxBacklog product campaigns generated at time 0 for
\* the first company alone (limit 1), which has an email and no phone
BacklogSends ==
    [i \in 1..(3 * MaxBacklog) |->
        Message(1, ((i - 1) \div 3) + 1, "EMAIL", Stages[((i - 1) % 3) + 1],
                ProductStageOffsets[((i - 1) % 3) + 1] * SlotsPerDay)]

\* the row unsubscribe(token) stores for the first company
BacklogUnsub(t) == [email |-> EmailB, company |-> 1, reason |-> "link", unsubscribed_at |-> t]

\* the tables after: MaxBacklog product campaigns for the first company at
\* time 0; the day of the second follow-up; the first company's unsubscribe
\* by its link; one more product campaign for both companies, which skips the
\* unsubscribed one.  Every Send of the backlog is due, and so are the two
\* INITIAL Sends of the last campaign; its follow-ups are not.  One more
\* request of an operator can still be served.
InitBacklog ==
    /\ now = ProductFollowup2Days * SlotsPerDay
    /\ companies = <<CompanyEmailOnly, CompanyBoth>>
    /\ assocs = <<1, 2>>
    /\ campaigns = [i \in 1..(MaxBacklog + 1) |-> "product"]
    /\ unsubs = <<BacklogUnsub(now)>>
    /\ lastUnsub = [email |-> EmailB, at |-> now, returned |-> BacklogUnsub(now)]
    /\ sends = BacklogSends \o ProductMessagesFor(2, MaxBacklog + 1)
    /\ replies = <<>>
    /\ lastReply = NoReplyCall
    /\ opens = <<>>
    /\ transportCall = 0
    /\ cancelFor = 0
    /\ inbound = NoInbound
    /\ delivered = {}
    /\ requests = MaxRequests - 1
    /\ InitProcesses
    /\ configs = <<>>
    /\ cycles = <<>>
    /\ runnerEvent = NoRunnerEvent

NextBacklog ==
    \/ message_sender_job
    \/ send_message

SpecBacklog == InitBacklog /\ [][NextBacklog]_vars

\* the Sends a sequence of ids names
Range(seq) == {seq[i] : i \in DOMAIN seq}

\* C22: the batch a tick queries holds at most 100 Sends, each DRAFT and due
\* at that moment; while the tick runs its batch only shrinks; a step of the
\* driver invokes a Transport for, or changes, only a Send of that batch; and
\* it leaves every Send that is not yet due as it was, with no Transport call.
C22_DueBatchOnly ==
    [][DriverStep =>
         /\ drvPc = "idle" =>
               /\ Len(DriverBatch) <= DriverBatchLimit
               /\ \A m \in Range(DriverBatch) :
                     sends[m].status = StatusDraft /\ sends[m].scheduled_for <= now
         /\ Range(drvBatch') \subseteq Range(DriverBatch)
         /\ Len(drvBatch') <= Len(DriverBatch)
         /\ \A m \in Ids(sends) :
               sends'[m] # sends[m] \/ transportCall' = m => m \in Range(DriverBatch)
         /\ \A m \in Ids(sends) :
               sends[m].scheduled_for > now => sends'[m] = sends[m] /\ transportCall' # m]_vars

\* a tick has just handled its whole batch of exactly 100 Sends while more
\* than 100 were due: a due Send is still DRAFT, and so are the follow-ups
\* that are not due
C22_Witness ==
    /\ drvPc = "loop"
    /\ drvBatch = <<>>
    /\ requests = MaxRequests - 1
    /\ Cardinality({m \in Ids(sends) : sends[m].status # StatusDraft}) = DriverBatchLimit
    /\ \E m \in Ids(sends) : sends[m].status = StatusDraft /\ sends[m].scheduled_for <= now
    /\ \E m \in Ids(sends) : sends[m].status = StatusDraft /\ sends[m].scheduled_for > now
    /\ delivered # {}

(***************************************************************************)
(* Deliveries after an administrator deleted companies (SpecDeliver)       *)
(***************************************************************************)
\* a row of another table still references one of the companies
CompanyReferenced(ids) ==
    \/ \E m \in Ids(sends) : sends[m].company \in ids
    \/ \E i \in Ids(replies) : replies[i].company \in ids
    \/ \E i \in Ids(unsubs) : unsubs[i].company \in ids

\* main.py delete_companies_batch: one bulk DELETE on companies.  messages,
\* reply_tracking and unsubscribe_list reference companies.id without an
\* ondelete rule, company_products with ondelete CASCADE (models.py lines 121,
\* 187, 199, 296).  A store that enforces the references rejects the DELETE
\* of a referenced company and cascades otherwise; a store that does not
\* enforce them removes the company rows and nothing else.
delete_companies_batch ==
    \E ids \in (SUBSET Ids(companies)) \ {{}}, enforced \in BOOLEAN :
        /\ Served
        /\ IF enforced /\ CompanyReferenced(ids)
           THEN UNCHANGED <<companies, assocs>>
           ELSE /\ companies' = [c \in Ids(companies) |->
                                   IF c \in ids THEN [companies[c] EXCEPT !.deleted = TRUE]
                                   ELSE companies[c]]
                /\ assocs' = IF enforced THEN SelectSeq(assocs, LAMBDA c : c \notin ids)
                             ELSE assocs
        /\ transportCall' = 0
        /\ cancelFor' = 0
        /\ inbound' = NoInbound
        /\ UNCHANGED <<now, opens, campaigns, sends, replies, unsubs, delivered, lastUnsub,
                       lastReply, processVars, autoVars>>

NextDeliver ==
    \/ generate_campaign
    \/ delete_companies_batch
    \/ message_sender_job

SpecDeliver == Init /\ [][NextDeliver]_vars

\* the destination the driver would send the Send to is absent
DestinationAbsent(m) ==
    \/ sends[m].type = "EMAIL" /\ primary_email(companies[sends[m].company]) = NoStr
    \/ sends[m].type = "WHATSAPP" /\ primary_phone(companies[sends[m].company]) = NoStr

\* C23: when the driver handles a DRAFT Send whose company no longer exists,
\* or whose primary email (EMAIL) or primary phone (WHATSAPP) is absent, the
\* Send becomes FAILED in that step and no Transport is invoked.
C23_MissingDestinationFails ==
    [][\A m \in Ids(sends) :
          /\ DriverHandles(m)
          /\ sends[m].status = StatusDraft
          /\ (~CompanyFound(sends[m].company) \/ DestinationAbsent(m))
          => /\ sends'[m].status = StatusFailed
             /\ transportCall' = 0
             /\ delivered' = delivered
             /\ drvPc' = "loop"]_vars

\* the driver has failed a Send of a deleted company and a Send whose
\* company exists but has no destination for the channel; nothing was
\* delivered
C23_Witness ==
    /\ delivered = {}
    /\ replies = <<>>
    /\ unsubs = <<>>
    /\ \E m \in Ids(sends) :
          sends[m].status = StatusFailed /\ ~CompanyFound(sends[m].company)
    /\ \E m \in Ids(sends) :
          /\ sends[m].status = StatusFailed
          /\ CompanyFound(sends[m].company)
          /\ DestinationAbsent(m)

\* the scheduler starts message_sender_job every 30 minutes (start, lines
\* 23-51) and every transport call returns: the driver's steps are taken
\* whenever they stay possible
SpecDeliverFair == SpecDeliver /\ WF_vars(message_sender_job)

\* the ids the messages table can hold: generate_campaign writes six rows
\* for a company, and only for a company that has none
DeliverIds == 1..(6 * MaxCompanies)

\* C27: the step in which the driver commits a Send of its batch leaves the
\* Send SENT or FAILED, and a tick ends only when its batch is exhausted; so,
\* with ticks occurring again and again, every Send that is DRAFT and due
\* eventually is not DRAFT.
C27_DueSendsLeaveDraft ==
    /\ [][DriverStep =>
            /\ sends' # sends =>
                  sends'[Head(DriverBatch)].status \in {StatusSent, StatusFailed}
            /\ drvPc' = "idle" => DriverBatch = <<>>]_vars
    /\ \A m \in DeliverIds :
          (m \in Ids(sends) /\ sends[m].status = StatusDraft /\ sends[m].scheduled_for <= now)
             ~> (m \in Ids(sends) /\ sends[m].status # StatusDraft)

\* the driver has handled the due Sends of two campaigns, generated one after
\* the other: SENT and FAILED Sends exist and no due Send is DRAFT
C27_Witness ==
    /\ drvPc = "loop"
    /\ drvBatch = <<>>
    /\ Len(campaigns) >= 2
    /\ \E m, k \in Ids(sends) :
          /\ sends[m].campaign # sends[k].campaign
          /\ sends[m].status = StatusSent
          /\ sends[k].status = StatusFailed
    /\ \A m \in Ids(sends) : sends[m].scheduled_for <= now => sends[m].status # StatusDraft
    /\ \E m \in Ids(sends) : sends[m].status = StatusDraft

(***************************************************************************)
(* The automation runner with the manual run (SpecRunNow)                  *)
(***************************************************************************)
\* POST /api/automation/{config_id}/run-now (main.py line 1704): the handler
\* is imported from automation_endpoints.py, which does not define it; it is
\* modelled as a call of run_single_automation, the "manual trigger" of its
\* docstring, in a session of its own (db=None, lines 626-631).  Lines 640-646 complete a
\* running config past its end date instead of running it.
run_automation_now ==
    \E c \in Ids(configs), outcome \in FetchOutcomes :
        LET st0 == Tables(configs, companies, campaigns, sends, cycles, {})
            st == IF configs[c].status = "running" /\ PastEndDate(configs[c], now)
                  THEN [st0 EXCEPT !.configs[c].status = "completed",
                                   !.configs[c].is_active = FALSE]
                  ELSE run_single_automation(st0, c, outcome, now)
        IN /\ Served
           /\ configs' = st.configs
           /\ companies' = st.companies
           /\ campaigns' = st.campaigns
           /\ sends' = st.sends
           /\ cycles' = st.cycles
           /\ runnerEvent' = NoRunnerEvent
           /\ transportCall' = 0
           /\ cancelFor' = 0
           /\ inbound' = NoInbound
           /\ UNCHANGED <<now, assocs, opens, replies, unsubs, delivered, lastUnsub, lastReply,
                          processVars>>

NextRunNow ==
    \/ NextAuto
    \/ run_automation_now

SpecRunNow == InitAuto /\ [][NextRunNow]_vars

\* C28: over the campaigns the automation generated, a company has at most
\* one Send for a channel and a stage.
C28_OneSendPerChannelStage ==
    \A m, k \in Ids(sends) :
        (/\ m # k
         /\ campaigns[sends[m].campaign] = "automation"
         /\ campaigns[sends[k].campaign] = "automation"
         /\ sends[m].company = sends[k].company
         /\ sends[m].type = sends[k].type)
            => sends[m].stage # sends[k].stage

(***************************************************************************)
(* The mailbox poll after a company was edited (SpecPoll)                  *)
(***************************************************************************)
\* a company as run_single_automation stores it (lines 681-701): the first
\* address found is both Company.email and the primary CompanyEmail row
CompanyFetchedA ==
    CompanyRow(EmailA, PhoneA, <<ContactRow(EmailA, TRUE, FALSE)>>,
               <<ContactRow(PhoneA, TRUE, FALSE)>>, "FIN", 0)

\* the email an update request can carry; null is an explicit value
UpdateEmails == {NoStr, EmailUnknown}

\* crud.update_company with {"email": ...}: setattr on the Company row; the
\* CompanyEmail rows are not touched
update_company ==
    \E c \in Ids(companies), email \in UpdateEmails :
        /\ Served
        /\ CompanyFound(c)
        /\ companies' = [companies EXCEPT ![c].email = email]
        /\ transportCall' = 0
        /\ cancelFor' = 0
        /\ inbound' = NoInbound
        /\ UNCHANGED <<now, assocs, opens, campaigns, sends, replies, unsubs, delivered,
                       lastUnsub, lastReply, processVars, autoVars>>

InitPoll ==
    /\ InitEmpty
    /\ companies = <<CompanyFetchedA, CompanyEmailOnly>>
    /\ assocs = <<2>>
    /\ configs = <<>>
    /\ cycles = <<>>
    /\ runnerEvent = NoRunnerEvent

NextPoll ==
    \/ generate_campaign
    \/ update_company
    \/ reply_checker_job

SpecPoll == InitPoll /\ [][NextPoll]_vars

\* C30: when a run of reply_checker_job ends, every reply of its poll that
\* matches a company has a ReplyRecord and the company has no DRAFT Send
\* left: the replies that come after the one handled last were not skipped.
C30_LaterRepliesHandled ==
    [][(rcPc # "idle" /\ rcPc' = "idle") =>
          \A i \in 2..Len(rcBatch) :
             LET from == Lower(rcBatch[i].from_email)
                 c == First(CompaniesByEmail(from))
             IN c # 0 =>
                   /\ \E r \in Ids(replies') :
                         replies'[r].company = c /\ replies'[r].from_email = from
                   /\ \A m \in Ids(sends') :
                         sends'[m].company = c => sends'[m].status # StatusDraft]_vars

====
